---- MODULE Spec2Model ----
(***************************************************************************)
(* Model of the email engagement tracker in src/server.js: the record      *)
(* store (mongoose model TrackingEmail), the three request handlers that   *)
(* touch it (POST /api/send-email, GET /api/click, GET /api/pixel/:id),    *)
(* the URI decoding the click handler applies to its redirect target and   *)
(* the rewrite of the links of a message body (rewriteLinksForTracking).   *)
(*                                                                         *)
(* Every handler is an async function: it runs synchronously up to an      *)
(* `await` on the store or the mailer, and other requests run while it     *)
(* waits.  A request therefore advances through one action per             *)
(* synchronous segment, and the store serves findOne / updateOne / create  *)
(* in actions of its own.                                                  *)
(*                                                                         *)
(* Text is a sequence of UTF-16 code units (naturals), as in JavaScript.   *)
(* Dates are clock ticks (positive naturals).                              *)
(***************************************************************************)
EXTENDS Integers, Sequences, FiniteSets, TLC

VARIABLES store, reqs, clock, started, mailerCalls, events, rw

vars == <<store, reqs, clock, started, mailerCalls, events, rw>>

----------------------------------------------------------------------------
(* Bounds of the model *)

MaxRequests == 4
MaxClock == 2

----------------------------------------------------------------------------
(* Values *)

Slots == {1, 2}

TrackingIds == {"t1", "t2"}

\* null in a Date field; every Date is a tick >= 1
NullDate == 0

\* null in the `method` field
NullMethod == "null"

\* a findOne that matched no document resolves to null
NullTracking == [trackingId |-> "null"]

\* a value that is not there: a String path that was never set, a header
\* the request does not carry
Undefined == "undefined"

\* null in a String field
NullString == "null"

\* req.ip and req.headers['user-agent'] of the requesters of the model; the
\* third sends no User-Agent header
Requester1 == [ip |-> "10.0.0.1", ua |-> "ua1"]
Requester2 == [ip |-> "10.0.0.2", ua |-> "ua2"]
Requester3 == [ip |-> "10.0.0.3", ua |-> Undefined]
Requesters == {Requester1, Requester2, Requester3}

----------------------------------------------------------------------------
(* decodeURIComponent (ECMAScript Decode with an empty reserved set) *)

\* the value that stands for a thrown URIError
URIError == <<-1>>

Pct == 37

IsHex(c) == (c >= 48 /\ c <= 57) \/ (c >= 65 /\ c <= 70) \/ (c >= 97 /\ c <= 102)

HexVal(c) ==
  IF c >= 48 /\ c <= 57 THEN c - 48
  ELSE IF c >= 65 /\ c <= 70 THEN c - 55
  ELSE c - 87

\* number of leading 1 bits of the octet b
LeadingOnes(b) ==
  IF b < 128 THEN 0
  ELSE IF b < 192 THEN 1
  ELSE IF b < 224 THEN 2
  ELSE IF b < 240 THEN 3
  ELSE IF b < 248 THEN 4
  ELSE 5

\* s has an escape "%XX" at position i (1-based)
EscapeAt(s, i) ==
  /\ i + 2 <= Len(s)
  /\ s[i] = Pct
  /\ IsHex(s[i + 1])
  /\ IsHex(s[i + 2])

OctetAt(s, i) == 16 * HexVal(s[i + 1]) + HexVal(s[i + 2])

IsContinuation(b) == b >= 128 /\ b < 192

\* the n octets escaped from position i on are n escapes, the last n-1 of them
\* continuation octets
OctetsAt(s, i, n) ==
  \A j \in 0..(n - 1) :
    /\ EscapeAt(s, i + 3 * j)
    /\ (j > 0 => IsContinuation(OctetAt(s, i + 3 * j)))

\* code point of the n-octet UTF-8 sequence escaped from position i on
CodePointAt(s, i, n) ==
  IF n = 2 THEN
    (OctetAt(s, i) - 192) * 64 + (OctetAt(s, i + 3) - 128)
  ELSE IF n = 3 THEN
    (OctetAt(s, i) - 224) * 4096 + (OctetAt(s, i + 3) - 128) * 64
      + (OctetAt(s, i + 6) - 128)
  ELSE
    (OctetAt(s, i) - 240) * 262144 + (OctetAt(s, i + 3) - 128) * 4096
      + (OctetAt(s, i + 6) - 128) * 64 + (OctetAt(s, i + 9) - 128)

\* not overlong, not a surrogate, inside the Unicode range
ValidCodePoint(v, n) ==
  /\ (n = 2 => v >= 128)
  /\ (n = 3 => v >= 2048)
  /\ (n = 4 => v >= 65536)
  /\ ~(v >= 55296 /\ v <= 57343)
  /\ v <= 1114111

UTF16Encode(v) ==
  IF v < 65536 THEN <<v>>
  ELSE <<55296 + ((v - 65536) \div 1024), 56320 + ((v - 65536) % 1024)>>

RECURSIVE DecodeFrom(_, _)
DecodeFrom(s, i) ==
  IF i > Len(s) THEN <<>>
  ELSE IF s[i] # Pct THEN
    LET rest == DecodeFrom(s, i + 1)
    IN  IF rest = URIError THEN URIError ELSE <<s[i]>> \o rest
  ELSE IF ~EscapeAt(s, i) THEN URIError
  ELSE
    LET b == OctetAt(s, i)
        n == LeadingOnes(b)
    IN  IF n = 0 THEN
          LET rest == DecodeFrom(s, i + 3)
          IN  IF rest = URIError THEN URIError ELSE <<b>> \o rest
        ELSE IF n = 1 \/ n > 4 THEN URIError
        ELSE IF ~OctetsAt(s, i, n) THEN URIError
        ELSE IF ~ValidCodePoint(CodePointAt(s, i, n), n) THEN URIError
        ELSE
          LET rest == DecodeFrom(s, i + 3 * n)
          IN  IF rest = URIError THEN URIError
              ELSE UTF16Encode(CodePointAt(s, i, n)) \o rest

decodeURIComponent(s) == DecodeFrom(s, 1)

----------------------------------------------------------------------------
(* encodeURIComponent and the query parser: ECMAScript EncodeURIComponent    *)
(* (unreserved characters stay, every other code point becomes the %XX      *)
(* escapes of its UTF-8 octets; a lone surrogate throws URIError) and the   *)
(* decoding the framework applies to a query string before the handler      *)
(* sees req.query                                                           *)

\* A-Z a-z 0-9 - _ . ! ~ * ' ( )
IsUnreserved(c) ==
  \/ (c >= 65 /\ c <= 90) \/ (c >= 97 /\ c <= 122) \/ (c >= 48 /\ c <= 57)
  \/ c \in {45, 95, 46, 33, 126, 42, 39, 40, 41}

\* upper-case hexadecimal digit
HexDigit(n) == IF n < 10 THEN 48 + n ELSE 55 + n

PctEncode(b) == <<Pct, HexDigit(b \div 16), HexDigit(b % 16)>>

\* the escapes of the UTF-8 octets of code point v
UTF8Escapes(v) ==
  IF v < 128 THEN PctEncode(v)
  ELSE IF v < 2048 THEN PctEncode(192 + (v \div 64)) \o PctEncode(128 + (v % 64))
  ELSE IF v < 65536 THEN
    PctEncode(224 + (v \div 4096)) \o PctEncode(128 + ((v \div 64) % 64))
      \o PctEncode(128 + (v % 64))
  ELSE
    PctEncode(240 + (v \div 262144)) \o PctEncode(128 + ((v \div 4096) % 64))
      \o PctEncode(128 + ((v \div 64) % 64)) \o PctEncode(128 + (v % 64))

IsHighSurrogate(c) == c >= 55296 /\ c <= 56319
IsLowSurrogate(c) == c >= 56320 /\ c <= 57343

RECURSIVE EncodeFrom(_, _)
EncodeFrom(s, i) ==
  IF i > Len(s) THEN <<>>
  ELSE IF IsUnreserved(s[i]) THEN
    LET rest == EncodeFrom(s, i + 1)
    IN  IF rest = URIError THEN URIError ELSE <<s[i]>> \o rest
  ELSE IF IsLowSurrogate(s[i]) THEN URIError
  ELSE IF IsHighSurrogate(s[i]) THEN
    IF i + 1 > Len(s) \/ ~IsLowSurrogate(s[i + 1]) THEN URIError
    ELSE
      LET rest == EncodeFrom(s, i + 2)
      IN  IF rest = URIError THEN URIError
          ELSE UTF8Escapes((s[i] - 55296) * 1024 + (s[i + 1] - 56320) + 65536)
                 \o rest
  ELSE
    LET rest == EncodeFrom(s, i + 1)
    IN  IF rest = URIError THEN URIError ELSE UTF8Escapes(s[i]) \o rest

encodeURIComponent(s) == EncodeFrom(s, 1)

\* the least member of a non-empty set of naturals
Least(S) == CHOOSE k \in S : \A j \in S : k <= j

\* String.prototype.indexOf(c, i) on 1-based positions; 0 when c is absent
IndexOf(s, c, i) ==
  LET H == {k \in i..Len(s) : s[k] = c}
  IN  IF H = {} THEN 0 ELSE Least(H)

\* the text after position i
From(s, i) == SubSeq(s, i, Len(s))

\* String.prototype.startsWith
StartsWith(s, lit) == Len(s) >= Len(lit) /\ SubSeq(s, 1, Len(lit)) = lit

\* the parts of s between occurrences of c
RECURSIVE Split(_, _)
Split(s, c) ==
  IF IndexOf(s, c, 1) = 0 THEN <<s>>
  ELSE <<SubSeq(s, 1, IndexOf(s, c, 1) - 1)>> \o Split(From(s, IndexOf(s, c, 1) + 1), c)

\* src/ pins no version of the framework, and the builds it allows parse a
\* query string with different parsers: qs up to 6.5 (Express up to 4.16),
\* qs from 6.6 (Express 4.17 and later 4.x), node:querystring (Express 5)
QueryParsers == {"qs-6.5", "qs", "querystring"}

\* every '+' turned into a space
PlusToSpace(s) == [i \in 1..Len(s) |-> IF s[i] = 43 THEN 32 ELSE s[i]]

\* querystring.unescapeBuffer: the octets of a text, a %XX escape giving one
\* octet and a '%' that starts no escape standing for itself
RECURSIVE UnescapeFrom(_, _)
UnescapeFrom(s, i) ==
  IF i > Len(s) THEN <<>>
  ELSE IF EscapeAt(s, i) THEN <<OctetAt(s, i)>> \o UnescapeFrom(s, i + 3)
  ELSE <<s[i] % 256>> \o UnescapeFrom(s, i + 1)

\* the number of continuation octets the lead octet b asks for, -1 for an
\* octet that leads nothing
ContinuationsOf(b) ==
  IF b < 128 THEN 0
  ELSE IF b >= 194 /\ b <= 223 THEN 1
  ELSE IF b >= 224 /\ b <= 239 THEN 2
  ELSE IF b >= 240 /\ b <= 244 THEN 3
  ELSE -1

\* octet b may stand as the k-th continuation after the lead octet lead
ContinuationOK(lead, k, b) ==
  IF k > 1 THEN IsContinuation(b)
  ELSE IF lead = 224 THEN b >= 160 /\ b <= 191
  ELSE IF lead = 237 THEN b >= 128 /\ b <= 159
  ELSE IF lead = 240 THEN b >= 144 /\ b <= 191
  ELSE IF lead = 244 THEN b >= 128 /\ b <= 143
  ELSE IsContinuation(b)

\* the code point of the well-formed sequence of n + 1 octets at position i
OctetsCodePoint(bs, i, n) ==
  IF n = 1 THEN (bs[i] - 192) * 64 + (bs[i + 1] - 128)
  ELSE IF n = 2 THEN
    (bs[i] - 224) * 4096 + (bs[i + 1] - 128) * 64 + (bs[i + 2] - 128)
  ELSE
    (bs[i] - 240) * 262144 + (bs[i + 1] - 128) * 4096
      + (bs[i + 2] - 128) * 64 + (bs[i + 3] - 128)

\* U+FFFD REPLACEMENT CHARACTER
ReplacementChar == 65533

\* Buffer.prototype.toString: UTF-8 decoding in which every ill-formed
\* stretch of octets, a lead octet with the continuations that fit it,
\* becomes one U+FFFD
RECURSIVE Utf8LossyFrom(_, _)
Utf8LossyFrom(bs, i) ==
  IF i > Len(bs) THEN <<>>
  ELSE
    LET n == ContinuationsOf(bs[i])
        fit == Least({k \in 1..4 :
                        \/ k > n
                        \/ i + k > Len(bs)
                        \/ ~ContinuationOK(bs[i], k, bs[i + k])}) - 1
    IN  IF n = 0 THEN <<bs[i]>> \o Utf8LossyFrom(bs, i + 1)
        ELSE IF n = -1 THEN <<ReplacementChar>> \o Utf8LossyFrom(bs, i + 1)
        ELSE IF fit < n THEN <<ReplacementChar>> \o Utf8LossyFrom(bs, i + fit + 1)
        ELSE UTF16Encode(OctetsCodePoint(bs, i, n)) \o Utf8LossyFrom(bs, i + n + 1)

\* querystring.unescape (qsUnescape): decodeURIComponent, and when that
\* throws the escapes there are, decoded to octets that are read as UTF-8
Unescape(t) ==
  IF decodeURIComponent(t) # URIError THEN decodeURIComponent(t)
  ELSE Utf8LossyFrom(UnescapeFrom(t, 1), 1)

\* utils.decode of qs: decodeURIComponent of the text with every '+' turned
\* into a space.  When that throws, qs up to 6.5 gives the text as it came
\* and later qs the text with the spaces
QsDecode(s, parser) ==
  IF decodeURIComponent(PlusToSpace(s)) # URIError
  THEN decodeURIComponent(PlusToSpace(s))
  ELSE IF parser = "qs-6.5" THEN s
  ELSE PlusToSpace(s)

\* the scan of querystring.parse over one key=value part p from position i:
\* it decodes a key or a value only after it has seen a '%' followed by two
\* hex digits (encodeCheck counts them).  inKey: no '=' was met yet; ke and
\* ve: keyEncoded and valEncoded; ec: encodeCheck.  While the key is
\* scanned and keyEncoded is set, an escape is counted for the value; a '+'
\* resets the count in a key that is not flagged and nowhere else.
RECURSIVE EncodeCheck(_, _, _, _, _, _)
EncodeCheck(p, i, inKey, ke, ve, ec) ==
  IF i > Len(p) THEN [key |-> ke, value |-> ve]
  ELSE IF inKey /\ p[i] = 61 THEN EncodeCheck(p, i + 1, FALSE, ke, ve, 0)
  ELSE IF inKey /\ ~ke /\ p[i] = Pct THEN EncodeCheck(p, i + 1, inKey, ke, ve, 1)
  ELSE IF inKey /\ ~ke /\ ec > 0 /\ IsHex(p[i])
  THEN EncodeCheck(p, i + 1, inKey, ec + 1 = 3, ve, ec + 1)
  ELSE
    LET ec1 == IF inKey /\ ~ke /\ ec > 0 THEN 0 ELSE ec
    IN  IF p[i] = 43 \/ ve THEN EncodeCheck(p, i + 1, inKey, ke, ve, ec1)
        ELSE IF p[i] = Pct THEN EncodeCheck(p, i + 1, inKey, ke, ve, 1)
        ELSE IF ec1 > 0 /\ IsHex(p[i])
        THEN EncodeCheck(p, i + 1, inKey, ke, ec1 + 1 = 3, ec1 + 1)
        ELSE EncodeCheck(p, i + 1, inKey, ke, ve, 0)

\* keyEncoded and valEncoded of querystring.parse for the part p
Encoded(p) == EncodeCheck(p, 1, TRUE, FALSE, FALSE, 0)

\* the decoding a query parser applies to the text s of a key or a value;
\* encoded is the flag the scan of node:querystring has set for it, which
\* qs does not look at
QueryDecode(s, parser, encoded) ==
  IF parser # "querystring" THEN QsDecode(s, parser)
  ELSE IF encoded /\ s # <<>> THEN Unescape(PlusToSpace(s))
  ELSE PlusToSpace(s)

\* the query string of a request URL: what stands between the first '?' and
\* the first '#', and nothing when a '#' comes before every '?'
QueryString(link) ==
  LET h == IndexOf(link, 35, 1)
      u == IF h = 0 THEN link ELSE SubSeq(link, 1, h - 1)
  IN  IF IndexOf(u, 63, 1) = 0 THEN <<>> ELSE From(u, IndexOf(u, 63, 1) + 1)

\* the position of the '=' that ends the key of the part p of a query string,
\* 0 when there is none: the first '=', but qs takes the '=' of a "]=" first
KeyEnd(p, parser) ==
  LET B == {i \in 1..(Len(p) - 1) : p[i] = 93 /\ p[i + 1] = 61}
  IN  IF parser # "querystring" /\ B # {} THEN Least(B) + 1
      ELSE IndexOf(p, 61, 1)

\* key and value of one key=value part of a query string
PairKey(p, parser) ==
  QueryDecode(IF KeyEnd(p, parser) = 0 THEN p
              ELSE SubSeq(p, 1, KeyEnd(p, parser) - 1), parser, Encoded(p).key)
PairValue(p, parser) ==
  IF KeyEnd(p, parser) = 0 THEN <<>>
  ELSE QueryDecode(From(p, KeyEnd(p, parser) + 1), parser, Encoded(p).value)

\* the text of a trackingId, and the trackingId a text stands for
IdText(t) == IF t = "t1" THEN <<116, 49>> ELSE IF t = "t2" THEN <<116, 50>> ELSE <<>>
IdOf(text) ==
  IF text = <<>> THEN ""
  ELSE IF \E t \in TrackingIds : IdText(t) = text
  THEN CHOOSE t \in TrackingIds : IdText(t) = text
  ELSE "other"

\* the names of the query parameters the click handler reads
KeyText(k) == IF k = "id" THEN <<105, 100>> ELSE <<117, 114, 108>>

\* a req.query this model does not describe: id or url is an array or an
\* object, or the request URL is one the URL parser rewrites before the
\* query parser sees it
NotModelled == [unmodelled |-> TRUE]

\* white space and control characters, which no request target holds
IsUrlSpace(c) == c < 33 \/ c = 160 \/ c = 65279

\* the characters url.parse escapes in a URL it parses in full, as it does
\* one with a '#': { } | \ ^ ` < > " ' space, tab, CR and LF
AutoEscaped(c) ==
  c \in {123, 125, 124, 92, 94, 96, 60, 62, 34, 39, 32, 9, 13, 10}

\* the parameters a query parser reads: parameterLimit of qs and maxKeys of
\* node:querystring, both left at their default
ParameterLimit == 1000

\* req.query of a GET on link, for the keys id and url: a key that is absent
\* is undefined.  A key given twice makes an array, and with qs a key with a
\* bracket makes an array or an object.  Only the first ParameterLimit parts
\* of the query string are read, the empty ones counted.
ParsedQuery(link, parser) ==
  LET parts == Split(QueryString(link), 38)
      Given == {i \in 1..Len(parts) : i <= ParameterLimit /\ parts[i] # <<>>}
      At(k) == {i \in Given : PairKey(parts[i], parser) = KeyText(k)}
  IN  IF \/ \E i \in 1..Len(link) : IsUrlSpace(link[i])
         \/ /\ IndexOf(link, 35, 1) # 0
            /\ \E i \in 1..Len(link) : AutoEscaped(link[i])
         \/ \E k \in {"id", "url"} : Cardinality(At(k)) > 1
         \/ /\ parser # "querystring"
            /\ \E i \in Given : IndexOf(PairKey(parts[i], parser), 91, 1) # 0
      THEN NotModelled
      ELSE [k \in {x \in {"id", "url"} : At(x) # {}} |->
              IF k = "id" THEN IdOf(PairValue(parts[Least(At(k))], parser))
              ELSE PairValue(parts[Least(At(k))], parser)]

----------------------------------------------------------------------------
(* rewriteLinksForTracking *)

\* String.prototype.replace with the global, case-insensitive regular
\* expression of src/server.js line 76: `<a`, white space, optionally an
\* attribute text without '>' that ends in white space, `href="`, the url up
\* to the next quote, the attributes up to '>', the content up to `</a>`.
\* It is matched as a backtracking matcher does.

\* process.env.BASE_URL || `http://localhost:${PORT}` with PORT 4000
BASE_URL ==
  <<104, 116, 116, 112, 58, 47, 47, 108, 111, 99, 97, 108, 104, 111, 115, 116,
    58, 52, 48, 48, 48>>

\* "/api/click?id=" and "&url="
ClickPath == <<47, 97, 112, 105, 47, 99, 108, 105, 99, 107, 63, 105, 100, 61>>
UrlParam == <<38, 117, 114, 108, 61>>

\* "mailto:" and "#"
MailtoPrefix == <<109, 97, 105, 108, 116, 111, 58>>
FragmentPrefix == <<35>>

\* the pieces of the replacement: `<a href="`, `"`, `>`, `</a>`
OpenHref == <<60, 97, 32, 104, 114, 101, 102, 61, 34>>
Quote == 34
Gt == 62
CloseTag == <<60, 47, 97, 62>>

\* `href="` in lower case
HrefEq == <<104, 114, 101, 102, 61, 34>>

\* \s of a regular expression
IsWhiteSpace(c) ==
  \/ c \in {9, 10, 11, 12, 13, 32, 160, 5760, 8232, 8233, 8239, 8287, 12288, 65279}
  \/ (c >= 8192 /\ c <= 8202)

\* the characters `.` does not match
IsLineTerminator(c) == c \in {10, 13, 8232, 8233}

\* character c matches the lower-case pattern character l under the i flag
MatchesCI(c, l) == c = l \/ (l >= 97 /\ l <= 122 /\ c = l - 32)

\* the literal lit (lower case) matches at position i under the i flag
LiteralAt(s, i, lit) ==
  /\ i + Len(lit) - 1 <= Len(s)
  /\ \A k \in 1..Len(lit) : MatchesCI(s[i + k - 1], lit[k])

\* the result of a failed match
NoMatch == [end |-> 0, url |-> <<>>, attributes |-> <<>>, content |-> <<>>]

\* the pattern from `href="` on, with href at position h: the url runs to
\* the next quote, the attributes to the next '>', the content to the next
\* </a>, and holds no line terminator
HrefTail(s, h) ==
  LET u == IndexOf(s, Quote, h + Len(HrefEq))
      g == IF u = 0 THEN 0 ELSE IndexOf(s, Gt, u + 1)
      E == IF g = 0 THEN {} ELSE {e \in (g + 1)..Len(s) : LiteralAt(s, e, CloseTag)}
  IN  IF ~LiteralAt(s, h, HrefEq) \/ u = 0 \/ g = 0 \/ E = {} THEN NoMatch
      ELSE IF \E k \in (g + 1)..(Least(E) - 1) : IsLineTerminator(s[k]) THEN NoMatch
      ELSE [end |-> Least(E) + Len(CloseTag) - 1,
            url |-> SubSeq(s, h + Len(HrefEq), u - 1),
            attributes |-> SubSeq(s, u + 1, g - 1),
            content |-> SubSeq(s, g + 1, Least(E) - 1)]

\* the end of the run of white space that starts at position i
SpaceEnd(s, i) ==
  Least({k \in i..(Len(s) + 1) : k > Len(s) \/ ~IsWhiteSpace(s[k])})

\* the match that starts at position p.  After `<a\s+` (up to q) the optional
\* group is tried before it is skipped, and its lazy attribute text
\* grows one character at a time: an href further into the tag, preceded by
\* white space, is tried before the href at q, nearest first.
MatchAt(s, p) ==
  IF ~(LiteralAt(s, p, <<60, 97>>) /\ p + 2 <= Len(s) /\ IsWhiteSpace(s[p + 2]))
  THEN NoMatch
  ELSE
    LET q == SpaceEnd(s, p + 2)
        later == {h \in (q + 1)..Len(s) :
                    /\ IsWhiteSpace(s[h - 1])
                    /\ \A k \in q..(h - 1) : s[k] # Gt
                    /\ HrefTail(s, h) # NoMatch}
    IN  IF later # {} THEN HrefTail(s, Least(later))
        ELSE IF q <= Len(s) THEN HrefTail(s, q)
        ELSE NoMatch

\* url.startsWith("mailto:") || url.startsWith("#")
Skipped(url) == StartsWith(url, MailtoPrefix) \/ StartsWith(url, FragmentPrefix)

\* `${BASE_URL}/api/click?id=${trackingId}&url=${encodedUrl}`
TrackingUrl(trackingId, url) ==
  IF encodeURIComponent(url) = URIError THEN URIError
  ELSE BASE_URL \o ClickPath \o IdText(trackingId) \o UrlParam \o encodeURIComponent(url)

\* the replacer function: what the match m of s at position p becomes
Replacer(s, p, m, trackingId) ==
  IF Skipped(m.url) THEN SubSeq(s, p, m.end)
  ELSE IF TrackingUrl(trackingId, m.url) = URIError THEN URIError
  ELSE OpenHref \o TrackingUrl(trackingId, m.url) \o <<Quote>> \o m.attributes
         \o <<Gt>> \o m.content \o CloseTag

\* the global replace: matches are looked for from left to right, each
\* search resuming after the previous match
RECURSIVE ReplaceFrom(_, _, _)
ReplaceFrom(s, p, trackingId) ==
  IF p > Len(s) THEN <<>>
  ELSE IF MatchAt(s, p) = NoMatch THEN
    LET rest == ReplaceFrom(s, p + 1, trackingId)
    IN  IF rest = URIError THEN URIError ELSE <<s[p]>> \o rest
  ELSE
    LET m == MatchAt(s, p)
        rest == ReplaceFrom(s, m.end + 1, trackingId)
    IN  IF Replacer(s, p, m, trackingId) = URIError \/ rest = URIError THEN URIError
        ELSE Replacer(s, p, m, trackingId) \o rest

rewriteLinksForTracking(htmlBody, trackingId) == ReplaceFrom(htmlBody, 1, trackingId)

\* the captured urls of the matches of the global replace, in order
RECURSIVE MatchedUrlsFrom(_, _)
MatchedUrlsFrom(s, p) ==
  IF p > Len(s) THEN <<>>
  ELSE IF MatchAt(s, p) = NoMatch THEN MatchedUrlsFrom(s, p + 1)
  ELSE <<MatchAt(s, p).url>> \o MatchedUrlsFrom(s, MatchAt(s, p).end + 1)

\* the hrefs the rewrite replaces by an indirection URL
RewrittenHrefs(htmlBody) ==
  LET urls == MatchedUrlsFrom(htmlBody, 1)
  IN  {u \in {urls[i] : i \in 1..Len(urls)} : ~Skipped(u)}

----------------------------------------------------------------------------
(* HTML fragments given to the rewrite *)

\* `<a ` and `<A `, `href="` and `HREF="`, `</a>` and `</A>`
TagOpen(upper) == IF upper THEN <<60, 65, 32>> ELSE <<60, 97, 32>>
HrefName(upper) == IF upper THEN <<72, 82, 69, 70, 61, 34>> ELSE HrefEq
TagClose(upper) == IF upper THEN <<60, 47, 65, 62>> ELSE CloseTag

\* attributes written before the href: none, or `class="b" `
PreAttributes == {<<>>, <<99, 108, 97, 115, 115, 61, 34, 98, 34, 32>>}

\* attributes written after the href: none, ` id="k"`, or a single-quoted
\* value that holds the text href="x": ` t=' href="x"'`
PostAttributes ==
  { <<>>,
    <<32, 105, 100, 61, 34, 107, 34>>,
    <<32, 116, 61, 39, 32, 104, 114, 101, 102, 61, 34, 120, 34, 39>> }

\* "#a", "mailto:x@y.com", "https://x.com", "/a%2Fb", "100%"
Hrefs ==
  { <<35, 97>>,
    <<109, 97, 105, 108, 116, 111, 58, 120, 64, 121, 46, 99, 111, 109>>,
    <<104, 116, 116, 112, 115, 58, 47, 47, 120, 46, 99, 111, 109>>,
    <<47, 97, 37, 50, 70, 98>>,
    <<49, 48, 48, 37>> }

\* inner content "go"
Content == <<103, 111>>

\* what follows the anchor: nothing, or `<a href="mailto:x@y.com">m</a>`
Tails ==
  { <<>>,
    <<60, 97, 32, 104, 114, 101, 102, 61, 34, 109, 97, 105, 108, 116, 111, 58,
      120, 64, 121, 46, 99, 111, 109, 34, 62, 109, 60, 47, 97, 62>> }

AnchorParts ==
  [upper : BOOLEAN, pre : PreAttributes, url : Hrefs, post : PostAttributes,
   tail : Tails]

\* the fragment made of the parts
Fragment(a) ==
  TagOpen(a.upper) \o a.pre \o HrefName(a.upper) \o a.url \o <<Quote>> \o a.post
    \o <<Gt>> \o Content \o TagClose(a.upper) \o a.tail

\* the rewrite has nothing to do
NoRewrite == [pc |-> "idle", parts |-> <<>>, trackingId |-> "", out |-> <<>>]

\* the calls of rewriteLinksForTracking(htmlBody, trackingId) that are made
RewriteInputs ==
  {[pc |-> "input", parts |-> a, trackingId |-> t, out |-> <<>>] :
     a \in AnchorParts, t \in TrackingIds}

----------------------------------------------------------------------------
(* Request inputs *)

\* "/a%2Fb" (text with an escape) and "100%" (text with a lone percent sign)
Urls ==
  { <<47, 97, 37, 50, 70, 98>>,
    <<49, 48, 48, 37>> }

\* req.query of GET /api/click after the framework parsed it; a key that is
\* absent is undefined in JavaScript
ClickQueries ==
  [id : TrackingIds, url : Urls]
    \cup {[id |-> "t1"], [url |-> <<47, 97, 37, 50, 70, 98>>],
          [id |-> "", url |-> <<47, 97, 37, 50, 70, 98>>],
          [id |-> "t1", url |-> <<>>]}

\* req.params of GET /api/pixel/:id
PixelParams == [id : TrackingIds]

\* "Hi" and "Hello"
BodyHi == <<72, 105>>
BodyHello == <<72, 101, 108, 108, 111>>

\* `<a href="\uD800">x</a>`: an anchor whose href is a lone surrogate
BodyLoneSurrogate ==
  <<60, 97, 32, 104, 114, 101, 102, 61, 34, 55296, 34, 62, 120, 60, 47, 97, 62>>

\* a line break, then `<a href="/x">y</a>`
BodyWithLink == <<10, 60, 97, 32, 104, 114, 101, 102, 61, 34, 47, 120, 34, 62, 121, 60, 47, 97, 62>>

\* a JSON number n of 0..9 where a text may stand: a value that is not a
\* string
NumberValue(n) == <<-2, n>>

\* typeof v === "string"
IsString(v) == v = <<>> \/ v[1] >= 0

\* the cast of the schema type String: a number becomes its decimal text
CastToString(v) == IF IsString(v) THEN v ELSE <<48 + v[2]>>

\* the number 5 as body
BodyNumber == NumberValue(5)

\* req.body of POST /api/send-email: two sends for t1 and sends that lack a
\* required field
SendT1 ==
  { [to |-> "hr@acme.io", subject |-> "Hello", body |-> BodyHi,
     trackingId |-> "t1", role |-> "Dev", company |-> "Acme"],
    [to |-> "jobs@corp.io", body |-> BodyLoneSurrogate, trackingId |-> "t1"] }

SendInvalid ==
  { [subject |-> "Hello", body |-> BodyHi, trackingId |-> "t2"],
    [to |-> "hr@acme.io", body |-> <<>>, trackingId |-> "t2"],
    [to |-> "hr@acme.io", body |-> BodyHi, trackingId |-> ""] }

\* sends for t2: a text, a number and a text with a link as body
SendT2 ==
  { [to |-> "hr@acme.io", subject |-> "", body |-> BodyHello,
     trackingId |-> "t2", role |-> "", company |-> "Acme"],
    [to |-> "hr@acme.io", body |-> BodyNumber, trackingId |-> "t2"],
    [to |-> "hr@acme.io", body |-> BodyWithLink, trackingId |-> "t2"] }

SendBodies == SendT1 \cup SendT2 \cup SendInvalid

\* JavaScript truthiness of obj[k] for a name, address or identifier: defined
\* and not the empty string
Truthy(obj, k) == k \in DOMAIN obj /\ obj[k] # ""

\* the same for a text (url, body) held as a sequence of code units, or a
\* number in its place: defined, not the empty string and not 0
TruthyText(obj, k) ==
  k \in DOMAIN obj /\ obj[k] # <<>> /\ obj[k] # NumberValue(0)

\* obj[k] || dflt
OrElse(obj, k, dflt) == IF Truthy(obj, k) THEN obj[k] ELSE dflt

----------------------------------------------------------------------------
(* The record store: mongoose model TrackingEmail *)

MetaFields == {"trackingId", "to", "subject", "body", "role", "company", "sentAt"}

\* fields of an update document, and a document with none
EmptyDoc == [f \in {} |-> f]

\* the document the send handler passes to Tracking.create
NewTracking(body, now) ==
  [trackingId |-> body.trackingId,
   to |-> body.to,
   subject |-> OrElse(body, "subject", "Application"),
   body |-> CastToString(body.body),
   role |-> OrElse(body, "role", "Position"),
   company |-> OrElse(body, "company", "Company"),
   status |-> "SENT",
   method |-> NullMethod,
   sentAt |-> now,
   openedAt |-> NullDate,
   ipAddress |-> Undefined,
   userAgent |-> Undefined,
   openCount |-> 0]

\* the collection holds at most one document per trackingId; NoDocument marks
\* a trackingId that has none
NoDocument == [trackingId |-> "none"]

Exists(s, id) == id \in DOMAIN s /\ s[id] # NoDocument

DuplicateKey_Unchecked(s, doc) == FALSE

\* trackingId carries a unique index: an insert of a second document with the
\* same trackingId is rejected with a duplicate key error
DuplicateKey(s, doc) == Exists(s, doc.trackingId)

\* Tracking.create(doc), once the unique index let it pass
Create(s, doc) == [s EXCEPT ![doc.trackingId] = doc]

\* Tracking.findOne({ trackingId: id })
FindOne(s, id) == IF Exists(s, id) THEN s[id] ELSE NullTracking

\* src/ pins no version of mongoose, and the builds it allows treat a key of
\* an update whose value is undefined in two ways: mongoose up to 5 sends it
\* to the server, which stores null; mongoose from 6 removes the key from the
\* update, which leaves the stored value as it is
UndefinedInUpdate == {"null", "removed"}

\* the update replaces the document instead of setting fields of it
ApplyUpdate_Replace(rec, upd, undef) ==
  [f \in DOMAIN rec |->
     IF f \in DOMAIN upd THEN upd[f]
     ELSE IF f = "trackingId" THEN rec[f]
     ELSE IF f \in {"sentAt", "openedAt", "openCount"} THEN 0
     ELSE IF f = "body" THEN <<>>
     ELSE Undefined]

\* the value of key f of the update upd is undefined: so may be the values
\* taken from the request, req.ip and the User-Agent header
IsUndefined(upd, f) == f \in {"ipAddress", "userAgent"} /\ upd[f] = Undefined

\* $set of the fields of upd on one document
ApplyUpdate(rec, upd, undef) ==
  [f \in DOMAIN rec |->
     IF f \notin DOMAIN upd THEN rec[f]
     ELSE IF ~IsUndefined(upd, f) THEN upd[f]
     ELSE IF undef = "removed" THEN rec[f]
     ELSE NullString]

\* the update increments the stored counter instead of setting the value
\* the handler computed
UpdateOne_Atomic(s, id, upd, undef) ==
  IF Exists(s, id)
  THEN [s EXCEPT ![id] =
          [ApplyUpdate(@, upd, undef) EXCEPT !.openCount = s[id].openCount + 1]]
  ELSE s

\* Tracking.updateOne({ trackingId: id }, upd): no upsert
UpdateOne(s, id, upd, undef) ==
  IF Exists(s, id) THEN [s EXCEPT ![id] = ApplyUpdate(@, upd, undef)] ELSE s

----------------------------------------------------------------------------
(* The engagement state machine: the update documents of the two handlers *)

\* the click handler forgets the status
ClickUpdateData_NoStatus(tracking, now, who) ==
  [openedAt |-> IF tracking.openedAt # NullDate THEN tracking.openedAt ELSE now,
   method |-> IF tracking.method # NullMethod THEN tracking.method ELSE "CLICK",
   openCount |-> tracking.openCount + 1,
   ipAddress |-> who.ip,
   userAgent |-> who.ua]

\* updateData of GET /api/click
ClickUpdateData(tracking, now, who) ==
  LET base ==
        [openedAt |-> IF tracking.openedAt # NullDate THEN tracking.openedAt ELSE now,
         method |-> IF tracking.method # NullMethod THEN tracking.method ELSE "CLICK",
         openCount |-> tracking.openCount + 1,
         ipAddress |-> who.ip,
         userAgent |-> who.ua]
  IN  IF tracking.status # "OPENED" THEN [status |-> "OPENED"] @@ base ELSE base

\* the pixel handler counts first opens only
PixelUpdateData_FirstOnly(tracking, now, who) ==
  IF tracking.status # "OPENED"
  THEN [status |-> "OPENED", openedAt |-> now, method |-> "PIXEL",
        openCount |-> tracking.openCount + 1, ipAddress |-> who.ip, userAgent |-> who.ua]
  ELSE [ipAddress |-> who.ip, userAgent |-> who.ua]

\* the pixel handler does not count the first open
PixelUpdateData_NoCount(tracking, now, who) ==
  IF tracking.status # "OPENED"
  THEN [status |-> "OPENED", openedAt |-> now, method |-> "PIXEL",
        ipAddress |-> who.ip, userAgent |-> who.ua]
  ELSE [openCount |-> tracking.openCount + 1,
        ipAddress |-> who.ip, userAgent |-> who.ua]

\* updateData of GET /api/pixel/:id
PixelUpdateData(tracking, now, who) ==
  LET base ==
        [openCount |-> tracking.openCount + 1,
         ipAddress |-> who.ip,
         userAgent |-> who.ua]
  IN  IF tracking.status # "OPENED"
      THEN [status |-> "OPENED", openedAt |-> now, method |-> "PIXEL"] @@ base
      ELSE base

----------------------------------------------------------------------------
(* Responses *)

NoResponse == [status |-> 0, type |-> "none", location |-> <<>>]

MissingFields == [status |-> 400, type |-> "json: Missing required fields", location |-> <<>>]

SendSuccess == [status |-> 200, type |-> "json: success", location |-> <<>>]

SendFailed == [status |-> 500, type |-> "json: Failed to send email", location |-> <<>>]

MissingParameters == [status |-> 400, type |-> "text: Missing parameters", location |-> <<>>]

\* the 1x1 transparent PNG with its no-cache headers
PixelPng == [status |-> 200, type |-> "image/png 1x1", location |-> <<>>]

Redirect(target) == [status |-> 302, type |-> "redirect", location |-> target]

\* An exception that leaves an async handler rejects a promise nobody awaits:
\* depending on the framework and runtime version the request is answered by
\* the default error handler or not answered at all.
UnhandledRejection ==
  { [status |-> 500, type |-> "default error handler", location |-> <<>>],
    [status |-> 0, type |-> "no response", location |-> <<>>] }

\* res.redirect(decodeURIComponent(url)) in the catch block: the responses the
\* request can end with
ClickCatch(url) ==
  IF decodeURIComponent(url) = URIError
  THEN UnhandledRejection
  ELSE {Redirect(decodeURIComponent(url))}

\* res.redirect(decodeURIComponent(url)) at the end of the try block; a
\* URIError thrown there is caught by the catch block
ClickRedirect(url) ==
  IF decodeURIComponent(url) = URIError
  THEN ClickCatch(url)
  ELSE {Redirect(decodeURIComponent(url))}

\* the response that follows the try/catch of the pixel handler
PixelRespond == PixelPng

----------------------------------------------------------------------------
(* Requests in flight *)

\* a slot that holds no request
Idle ==
  [pc |-> "idle", kind |-> "none", input |-> EmptyDoc, who |-> EmptyDoc,
   tracking |-> NullTracking, updateData |-> EmptyDoc, response |-> NoResponse]

\* slot r holds no request, or one that was answered
Free(r) == reqs[r].pc \in {"idle", "done"}

\* a request that was answered with resp: the slot keeps what went out
Done(kind, resp) == [Idle EXCEPT !.pc = "done", !.kind = kind, !.response = resp]

\* the request of slot r ends with response resp
Answer(r, resp) == reqs' = [reqs EXCEPT ![r] = Done(reqs[r].kind, resp)]

\* a new request of the given kind, waiting at pc
Accept(kind, input, who, pc) ==
  [Idle EXCEPT !.pc = pc, !.kind = kind, !.input = input, !.who = who]

\* a new request takes the first free slot
Takes(r) == Free(r) /\ \A o \in Slots : o < r => ~Free(o)

\* ghost: the engagement events that arrived for a record that existed
Count(id) ==
  IF Exists(store, id) THEN [events EXCEPT ![id] = @ + 1] ELSE events

Init ==
  /\ store = [t \in TrackingIds |-> NoDocument]
  /\ reqs = [r \in Slots |-> Idle]
  /\ clock = 1
  /\ started = 0
  /\ mailerCalls = [t \in TrackingIds |-> 0]
  /\ events = [t \in TrackingIds |-> 0]
  /\ rw = NoRewrite

\* new Date(): the clock has stood still or advanced since it was last read
Now == {t \in {clock, clock + 1} : t <= MaxClock}

----------------------------------------------------------------------------
(* GET /api/click *)

\* the handler up to `await Tracking.findOne`
ClickArrive(r, q, who) ==
  /\ Takes(r)
  /\ started < MaxRequests
  /\ started' = started + 1
  /\ IF ~Truthy(q, "id") \/ ~TruthyText(q, "url")
     THEN /\ reqs' = [reqs EXCEPT ![r] =
                        Done("click", MissingParameters)]
          /\ events' = events
     ELSE /\ reqs' = [reqs EXCEPT ![r] = Accept("click", q, who, "findOne")]
          /\ events' = Count(q.id)
  /\ UNCHANGED <<store, clock, mailerCalls, rw>>

\* findOne resolved: build updateData and call updateOne, or redirect at once
\* when there is no record
ClickFound(r) ==
  /\ reqs[r].kind = "click"
  /\ reqs[r].pc = "found"
  /\ IF reqs[r].tracking # NullTracking
     THEN \E now \in Now :
            /\ clock' = now
            /\ reqs' = [reqs EXCEPT ![r] =
                 [@ EXCEPT !.pc = "updateOne",
                           !.updateData = ClickUpdateData(reqs[r].tracking, now, reqs[r].who)]]
     ELSE /\ \E resp \in ClickRedirect(reqs[r].input.url) : Answer(r, resp)
          /\ clock' = clock
  /\ UNCHANGED <<store, started, mailerCalls, events, rw>>

\* updateOne resolved: redirect
ClickUpdated(r) ==
  /\ reqs[r].kind = "click"
  /\ reqs[r].pc = "updated"
  /\ \E resp \in ClickRedirect(reqs[r].input.url) : Answer(r, resp)
  /\ UNCHANGED <<store, clock, started, mailerCalls, events, rw>>

\* findOne or updateOne rejected: the catch block redirects
ClickStoreError(r) ==
  /\ reqs[r].kind = "click"
  /\ reqs[r].pc \in {"findOne", "updateOne"}
  /\ \E resp \in ClickCatch(reqs[r].input.url) : Answer(r, resp)
  /\ UNCHANGED <<store, clock, started, mailerCalls, events, rw>>

----------------------------------------------------------------------------
(* GET /api/pixel/:id *)

\* the handler up to `await Tracking.findOne`
PixelArrive(r, p, who) ==
  /\ Takes(r)
  /\ started < MaxRequests
  /\ started' = started + 1
  /\ reqs' = [reqs EXCEPT ![r] = Accept("pixel", p, who, "findOne")]
  /\ events' = Count(p.id)
  /\ UNCHANGED <<store, clock, mailerCalls, rw>>

\* the pixel handler without `if (tracking)`: a missing record is counted from 0
PixelFound_Unchecked(r) ==
  /\ reqs[r].kind = "pixel"
  /\ reqs[r].pc = "found"
  /\ \E now \in Now :
       /\ clock' = now
       /\ reqs' = [reqs EXCEPT ![r] =
            [@ EXCEPT !.pc = "updateOne",
                      !.updateData =
                        IF reqs[r].tracking # NullTracking
                        THEN PixelUpdateData(reqs[r].tracking, now, reqs[r].who)
                        ELSE [openCount |-> 1]]]
  /\ UNCHANGED <<store, started, mailerCalls, events, rw>>

\* findOne resolved: build updateData and call updateOne, or send the image
\* at once when there is no record
PixelFound(r) ==
  /\ reqs[r].kind = "pixel"
  /\ reqs[r].pc = "found"
  /\ IF reqs[r].tracking # NullTracking
     THEN \E now \in Now :
            /\ clock' = now
            /\ reqs' = [reqs EXCEPT ![r] =
                 [@ EXCEPT !.pc = "updateOne",
                           !.updateData = PixelUpdateData(reqs[r].tracking, now, reqs[r].who)]]
     ELSE /\ Answer(r, PixelRespond)
          /\ clock' = clock
  /\ UNCHANGED <<store, started, mailerCalls, events, rw>>

\* updateOne resolved: send the image
PixelUpdated(r) ==
  /\ reqs[r].kind = "pixel"
  /\ reqs[r].pc = "updated"
  /\ Answer(r, PixelRespond)
  /\ UNCHANGED <<store, clock, started, mailerCalls, events, rw>>

\* the pixel handler answers a storage error with 500
PixelStoreError_Surfaced(r) ==
  /\ reqs[r].kind = "pixel"
  /\ reqs[r].pc \in {"findOne", "updateOne"}
  /\ Answer(r, [status |-> 500, type |-> "json: error", location |-> <<>>])
  /\ UNCHANGED <<store, clock, started, mailerCalls, events, rw>>

\* findOne or updateOne rejected: the catch block logs, then the image is sent
PixelStoreError(r) ==
  /\ reqs[r].kind = "pixel"
  /\ reqs[r].pc \in {"findOne", "updateOne"}
  /\ Answer(r, PixelRespond)
  /\ UNCHANGED <<store, clock, started, mailerCalls, events, rw>>

----------------------------------------------------------------------------
(* The store serving the engagement handlers *)

\* the store answers findOne of request r with the record as it is now
StoreFindOne(r) ==
  /\ reqs[r].pc = "findOne"
  /\ reqs' = [reqs EXCEPT ![r] =
                [@ EXCEPT !.pc = "found", !.tracking = FindOne(store, reqs[r].input.id)]]
  /\ UNCHANGED <<store, clock, started, mailerCalls, events, rw>>

\* the store applies updateOne of request r, an undefined value of the update
\* treated as one of the builds treats it
StoreUpdateOne(r) ==
  /\ reqs[r].pc = "updateOne"
  /\ \E undef \in UndefinedInUpdate :
       store' = UpdateOne(store, reqs[r].input.id, reqs[r].updateData, undef)
  /\ reqs' = [reqs EXCEPT ![r] = [@ EXCEPT !.pc = "updated"]]
  /\ UNCHANGED <<clock, started, mailerCalls, events, rw>>

----------------------------------------------------------------------------
(* POST /api/send-email *)

\* the send handler validates `to` and `trackingId` only
SendArrive_NoBodyCheck(r, b) ==
  /\ Takes(r)
  /\ started < MaxRequests
  /\ started' = started + 1
  /\ IF ~Truthy(b, "to") \/ ~Truthy(b, "trackingId")
     THEN /\ reqs' = [reqs EXCEPT ![r] = Done("send", MissingFields)]
          /\ clock' = clock
     ELSE \E now \in Now :
            /\ clock' = now
            /\ reqs' = [reqs EXCEPT ![r] =
                 [Accept("send", b, EmptyDoc, "create")
                    EXCEPT !.updateData = NewTracking(b, now)]]
  /\ UNCHANGED <<store, mailerCalls, events, rw>>

\* the handler up to `await Tracking.create`
SendArrive(r, b) ==
  /\ Takes(r)
  /\ started < MaxRequests
  /\ started' = started + 1
  /\ IF ~Truthy(b, "to") \/ ~TruthyText(b, "body") \/ ~Truthy(b, "trackingId")
     THEN /\ reqs' = [reqs EXCEPT ![r] = Done("send", MissingFields)]
          /\ clock' = clock
     ELSE \E now \in Now :
            /\ clock' = now
            /\ reqs' = [reqs EXCEPT ![r] =
                 [Accept("send", b, EmptyDoc, "create")
                    EXCEPT !.updateData = NewTracking(b, now)]]
  /\ UNCHANGED <<store, mailerCalls, events, rw>>

\* the store replaces the document that has the trackingId of request r
StoreCreate_Overwrite(r) ==
  /\ reqs[r].pc = "create"
  /\ store' = Create(store, reqs[r].updateData)
  /\ reqs' = [reqs EXCEPT ![r] = [@ EXCEPT !.pc = "created"]]
  /\ UNCHANGED <<clock, started, mailerCalls, events, rw>>

\* the store inserts the document of request r, or rejects it as a
\* duplicate; the handler is resumed in a later step
StoreCreate(r) ==
  /\ reqs[r].pc = "create"
  /\ IF DuplicateKey(store, reqs[r].updateData)
     THEN /\ reqs' = [reqs EXCEPT ![r] = [@ EXCEPT !.pc = "rejected"]]
          /\ store' = store
     ELSE /\ store' = Create(store, reqs[r].updateData)
          /\ reqs' = [reqs EXCEPT ![r] = [@ EXCEPT !.pc = "created"]]
  /\ UNCHANGED <<clock, started, mailerCalls, events, rw>>

\* the send handler logs a failed create and goes on to send the message
SendStoreError_Ignored(r) ==
  /\ reqs[r].pc = "create"
  /\ reqs' = [reqs EXCEPT ![r] = [@ EXCEPT !.pc = "created"]]
  /\ UNCHANGED <<store, clock, started, mailerCalls, events, rw>>

\* the store rejects Tracking.create for another reason
SendStoreError(r) ==
  /\ reqs[r].pc = "create"
  /\ reqs' = [reqs EXCEPT ![r] = [@ EXCEPT !.pc = "rejected"]]
  /\ UNCHANGED <<store, clock, started, mailerCalls, events, rw>>

\* create rejected: the catch block answers 500
SendRejected(r) ==
  /\ reqs[r].pc = "rejected"
  /\ Answer(r, SendFailed)
  /\ UNCHANGED <<store, clock, started, mailerCalls, events, rw>>

\* "<br/>"
LineBreakTag == <<60, 98, 114, 47, 62>>

\* body.replace(/\n/g, "<br/>")
RECURSIVE ReplaceNewlines(_)
ReplaceNewlines(s) ==
  IF s = <<>> THEN <<>>
  ELSE (IF Head(s) = 10 THEN LineBreakTag ELSE <<Head(s)>>)
         \o ReplaceNewlines(Tail(s))

\* body.replace is not a function
TypeError == <<-3>>

\* processedBody of the send handler, or the exception thrown on the way:
\* TypeError for a body that is not a string, URIError out of the rewrite
ProcessedBody(body, trackingId) ==
  IF ~IsString(body) THEN TypeError
  ELSE rewriteLinksForTracking(ReplaceNewlines(body), trackingId)

\* create resolved: compose the message and call transporter.sendMail; an
\* exception thrown while the body is processed goes to the catch block,
\* which answers 500 before the mailer is called
SendCreated(r) ==
  /\ reqs[r].pc = "created"
  /\ IF ProcessedBody(reqs[r].input.body, reqs[r].input.trackingId)
          \in {TypeError, URIError}
     THEN /\ Answer(r, SendFailed)
          /\ mailerCalls' = mailerCalls
     ELSE /\ reqs' = [reqs EXCEPT ![r] = [@ EXCEPT !.pc = "sendMail"]]
          /\ mailerCalls' =
               [mailerCalls EXCEPT ![reqs[r].input.trackingId] = @ + 1]
  /\ UNCHANGED <<store, clock, started, events, rw>>

\* the mailer accepts the message of request r
MailerSendMail(r) ==
  /\ reqs[r].pc = "sendMail"
  /\ reqs' = [reqs EXCEPT ![r] = [@ EXCEPT !.pc = "mailed"]]
  /\ UNCHANGED <<store, clock, started, mailerCalls, events, rw>>

\* sendMail resolved: answer success
SendMailed(r) ==
  /\ reqs[r].pc = "mailed"
  /\ Answer(r, SendSuccess)
  /\ UNCHANGED <<store, clock, started, mailerCalls, events, rw>>

\* the catch block deletes the record of a message that was not sent
SendMailError_Rollback(r) ==
  /\ reqs[r].pc = "sendMail"
  /\ Answer(r, SendFailed)
  /\ store' = [store EXCEPT ![reqs[r].input.trackingId] = NoDocument]
  /\ UNCHANGED <<clock, started, mailerCalls, events, rw>>

\* sendMail rejected: the catch block answers 500
SendMailError(r) ==
  /\ reqs[r].pc = "sendMail"
  /\ Answer(r, SendFailed)
  /\ UNCHANGED <<store, clock, started, mailerCalls, events, rw>>

----------------------------------------------------------------------------
(* The rewrite of a message body, and a recipient who follows a rewritten   *)
(* link                                                                     *)

\* processedBody = rewriteLinksForTracking(processedBody, trackingId)
RewriteLinks ==
  /\ rw.pc = "input"
  /\ rw' = [rw EXCEPT !.pc = "rewritten",
                      !.out = rewriteLinksForTracking(Fragment(rw.parts), rw.trackingId)]
  /\ UNCHANGED <<store, reqs, clock, started, mailerCalls, events>>

\* the first request is a GET on an indirection URL the rewrite produced
FollowLink(r) ==
  /\ rw.pc = "rewritten"
  /\ rw.out # URIError
  /\ started = 0
  /\ \E h \in RewrittenHrefs(Fragment(rw.parts)), parser \in QueryParsers :
       /\ ParsedQuery(TrackingUrl(rw.trackingId, h), parser) # NotModelled
       /\ ClickArrive(r, ParsedQuery(TrackingUrl(rw.trackingId, h), parser),
                      Requester1)

----------------------------------------------------------------------------
(* Specifications *)

\* a request arrives: a send with one of the given bodies, or an engagement
\* event from one of the given requesters
Arrive(r, bodies, whos) ==
  \/ \E q \in ClickQueries, who \in whos : ClickArrive(r, q, who)
  \/ \E p \in PixelParams, who \in whos : PixelArrive(r, p, who)
  \/ \E b \in bodies : SendArrive(r, b)

\* steps of a request in which no collaborator fails
Proceed(r) ==
  \/ StoreFindOne(r)
  \/ StoreUpdateOne(r)
  \/ ClickFound(r)
  \/ ClickUpdated(r)
  \/ PixelFound(r)
  \/ PixelUpdated(r)
  \/ StoreCreate(r)
  \/ SendRejected(r)
  \/ SendCreated(r)
  \/ MailerSendMail(r)
  \/ SendMailed(r)

\* steps in which the store or the mailer fails
Fail(r) ==
  \/ ClickStoreError(r)
  \/ PixelStoreError(r)
  \/ SendStoreError(r)
  \/ SendMailError(r)

\* requests are handled concurrently: any request may take the next step.
\* All records of this specification have trackingId t1; t2 is the trackingId
\* that matches no record.
Next ==
  \E r \in Slots :
    \/ Arrive(r, SendT1 \cup SendInvalid, {Requester1})
    \/ Proceed(r)
    \/ Fail(r)

Spec == Init /\ [][Next]_vars

\* every request is handled to completion before the next one begins, and
\* the store and the mailer succeed
Quiet == \A r \in Slots : Free(r)

NextSerial ==
  \E r \in Slots :
    \/ Quiet /\ Arrive(r, SendBodies, Requesters)
    \/ Proceed(r)

SpecSerial == Init /\ [][NextSerial]_vars

\* req.body of the send whose body is the HTML fragment of parts a
RewriteSend(a, t) == [to |-> "hr@acme.io", body |-> Fragment(a), trackingId |-> t]

\* rewriteLinksForTracking applied to the body of a send, then a click on a
\* link it produced, handled by GET /api/click.  The send handler calls the
\* rewrite after Tracking.create resolved, so the record of the trackingId
\* is in the store.
InitRewrite ==
  /\ rw \in RewriteInputs
  /\ store = [t \in TrackingIds |->
                IF t = rw.trackingId
                THEN NewTracking(RewriteSend(rw.parts, rw.trackingId), 1)
                ELSE NoDocument]
  /\ reqs = [r \in Slots |-> Idle]
  /\ clock = 1
  /\ started = 0
  /\ mailerCalls = [t \in TrackingIds |-> 0]
  /\ events = [t \in TrackingIds |-> 0]

NextRewrite ==
  \/ RewriteLinks
  \/ \E r \in Slots :
       \/ FollowLink(r)
       \/ StoreFindOne(r)
       \/ ClickFound(r)
       \/ StoreUpdateOne(r)
       \/ ClickUpdated(r)
       \/ ClickStoreError(r)

SpecRewrite == InitRewrite /\ [][NextRewrite]_vars

----------------------------------------------------------------------------
(* Properties *)

\* request r takes this step
Moved(r) == reqs'[r] # reqs[r]

\* this step is the store applying an updateOne to the record of id
EngagementWrite(id) ==
  \E r \in Slots :
    /\ reqs[r].pc = "updateOne"
    /\ reqs'[r].pc = "updated"
    /\ reqs[r].input.id = id

\* C1: once `method` of a record is non-null, no later store write changes it
\* (a click after a pixel-open leaves PIXEL, a pixel fetch after a click-open
\* leaves CLICK), whatever the interleaving of the handlers.
C1_MethodSetOnce ==
  [][\A id \in TrackingIds :
       (Exists(store, id) /\ store[id].method # NullMethod)
         => store'[id].method = store[id].method]_vars

\* C2: when every engagement event is handled to completion before the next
\* begins and the store succeeds, openCount of a record equals the number of
\* engagement events that arrived for it since it was created.
C2_OpenCountEqualsEvents ==
  Quiet => \A id \in TrackingIds :
             Exists(store, id) => store[id].openCount = events[id]

C2_Witness ==
  /\ Quiet
  /\ Exists(store, "t1")
  /\ store["t1"].openCount = 3
  /\ events["t1"] = 3
  /\ store["t1"].method = "CLICK"
  /\ \E r \in Slots : reqs[r].kind = "pixel"

\* C3: in every state of the store, for every record, status = OPENED iff
\* openedAt is non-null iff method is non-null.
C3_OpenedFieldsAgree ==
  \A id \in TrackingIds :
    Exists(store, id) =>
      /\ (store[id].status = "OPENED") <=> (store[id].openedAt # NullDate)
      /\ (store[id].openedAt # NullDate) <=> (store[id].method # NullMethod)

\* a write of one handler landed while another handler still holds the read of
\* the unopened record
C3_Witness ==
  \E r1, r2 \in Slots :
    /\ reqs[r1].pc = "updated" /\ reqs[r1].kind = "click"
    /\ reqs[r2].pc = "updateOne" /\ reqs[r2].kind = "pixel"
    /\ reqs[r2].tracking.status = "SENT"
    /\ store["t1"].status = "OPENED"
    /\ store["t1"].method = "CLICK"

\* C4: once openedAt of a record holds a timestamp, no later pixel or click
\* write replaces it with a different timestamp, whatever the interleaving.
C4_OpenedAtSetOnce ==
  [][\A id \in TrackingIds :
       (Exists(store, id) /\ store[id].openedAt # NullDate)
         => store'[id].openedAt = store[id].openedAt]_vars

\* C5: status changes only from SENT to OPENED; the change is made by the first
\* engagement write applied to the record, which always makes it; and a record
\* that is OPENED never becomes SENT again, also when a send repeats its
\* trackingId.
C5_StatusOnlyOpens ==
  [][\A id \in TrackingIds :
       Exists(store, id) =>
         /\ Exists(store', id)
         /\ store[id].status = "OPENED" => store'[id].status = "OPENED"
         /\ store'[id].status # store[id].status
              => /\ store[id].status = "SENT"
                 /\ store'[id].status = "OPENED"
                 /\ EngagementWrite(id)
                 /\ store[id].openCount = 0
         /\ (EngagementWrite(id) /\ store[id].status = "SENT")
              => store'[id].status = "OPENED"]_vars

\* a repeated send for an opened record was refused and the record is OPENED
C5_Witness ==
  /\ Exists(store, "t1")
  /\ store["t1"].status = "OPENED"
  /\ store["t1"].openCount = 2
  /\ \E r \in Slots : reqs[r] = Done("send", SendFailed)
  /\ mailerCalls["t1"] = 1

\* C6: the stored openCount of a record never decreases from one store state
\* to the next, whatever the interleaving.
C6_OpenCountMonotonic ==
  [][\A id \in TrackingIds :
       Exists(store, id) => store'[id].openCount >= store[id].openCount]_vars

\* C7: every pixel request is answered 200 with the 1x1 PNG, whether the
\* record was found, absent, or the store failed.
C7_PixelAlwaysPng ==
  \A r \in Slots :
    (reqs[r].kind = "pixel" /\ reqs[r].pc = "done") => reqs[r].response = PixelPng

\* a pixel event arrived for the record, the store failed, and the image went
\* out: every request is answered and the record was never written
C7_Witness ==
  /\ Quiet
  /\ Exists(store, "t1")
  /\ events["t1"] = 1
  /\ store["t1"].openCount = 0
  /\ \E r \in Slots : reqs[r] = Done("pixel", PixelPng)
  /\ \A r \in Slots : reqs[r].kind # "click"

\* C8: every click request that carries both id and url ends with a redirect,
\* whatever the tracking outcome.
C8_ClickAlwaysRedirects ==
  [][\A r \in Slots :
       (reqs[r].kind = "click" /\ ~Free(r) /\ reqs'[r].pc = "done")
         => reqs'[r].response.status = 302]_vars

\* C9: an engagement request whose trackingId matches no record writes
\* nothing: the steps it takes leave the store as it is, and after the lookup
\* it goes straight to its response.
C9_NoRecordNoWrite ==
  [][\A r \in Slots :
       /\ (reqs[r].pc = "findOne" /\ ~Exists(store, reqs[r].input.id) /\ Moved(r))
            => store' = store
       /\ (reqs[r].pc = "found" /\ reqs[r].tracking = NullTracking /\ Moved(r))
            => (store' = store /\ reqs'[r].pc = "done")]_vars

\* a click and a pixel fetch for t2, which has no record, were answered while
\* the record of t1 exists
C9_Witness ==
  /\ Exists(store, "t1")
  /\ ~Exists(store, "t2")
  /\ started = 3
  /\ reqs[1] = Done("pixel", PixelPng)
  /\ reqs[2].kind = "click" /\ reqs[2].pc = "done" /\ reqs[2].response.status = 302

\* C10: no step changes trackingId, to, subject, body, role, company or sentAt
\* of an existing record.
C10_MetadataImmutable ==
  [][\A id \in TrackingIds :
       Exists(store, id) =>
         \A f \in MetaFields : store'[id][f] = store[id][f]]_vars

\* a record created with defaulted subject, role and company has taken a
\* pixel and a click write
C10_Witness ==
  /\ Exists(store, "t1")
  /\ store["t1"].to = "jobs@corp.io"
  /\ store["t1"].subject = "Application"
  /\ store["t1"].sentAt = 1
  /\ store["t1"].openCount = 2
  /\ store["t1"].openedAt = 2
  /\ \E r \in Slots : reqs[r].kind = "click" /\ reqs[r].pc = "updated"

\* C11: a send that lacks `to`, `body` or `trackingId` is answered 400 in the
\* step it arrives in, which leaves the store and the mailer untouched; only a
\* send that has all three gets as far as Tracking.create.
C11_InvalidSendNoEffect ==
  [][\A r \in Slots :
       /\ (Moved(r) /\ reqs'[r] = Done("send", MissingFields))
            => (store' = store /\ mailerCalls' = mailerCalls)
       /\ (Moved(r) /\ reqs'[r].kind = "send" /\ reqs'[r].pc # "done")
            => /\ Truthy(reqs'[r].input, "to")
               /\ TruthyText(reqs'[r].input, "body")
               /\ Truthy(reqs'[r].input, "trackingId")]_vars

\* an invalid send was answered 400 next to an opened record
C11_Witness ==
  /\ reqs[2] = Done("send", MissingFields)
  /\ Exists(store, "t1")
  /\ store["t1"].status = "OPENED"
  /\ ~Exists(store, "t2")
  /\ mailerCalls = [t \in TrackingIds |-> IF t = "t1" THEN 1 ELSE 0]

\* C12: sendMail is called for a trackingId only by a request whose own
\* Tracking.create stored the record before; a request whose create did not
\* store a record, or whose body could not be processed, is answered 500
\* without a call of the mailer; and success is answered only after the
\* mailer accepted the message.
C12_MailOnlyAfterCreate ==
  [][/\ \A r \in Slots :
          /\ (Moved(r) /\ reqs'[r].pc = "created")
               => /\ reqs[r].pc = "create"
                  /\ ~Exists(store, reqs[r].input.trackingId)
                  /\ store'[reqs[r].input.trackingId] = reqs[r].updateData
          /\ (Moved(r) /\ reqs[r].pc = "create" /\ store' = store)
               => (reqs'[r].pc = "rejected" /\ mailerCalls' = mailerCalls)
          /\ (Moved(r) /\ reqs[r].pc = "rejected")
               => /\ reqs'[r] = Done("send", SendFailed)
                  /\ mailerCalls' = mailerCalls
                  /\ store' = store
          /\ (Moved(r) /\ reqs'[r].pc = "sendMail")
               => /\ reqs[r].pc = "created"
                  /\ Exists(store, reqs[r].input.trackingId)
                  /\ \A f \in MetaFields :
                       store[reqs[r].input.trackingId][f] = reqs[r].updateData[f]
          /\ (Moved(r) /\ reqs'[r] = Done("send", SendSuccess))
               => (reqs[r].pc = "mailed" /\ Exists(store, reqs[r].input.trackingId))
          /\ (Moved(r) /\ reqs[r].pc = "created" /\ reqs'[r].pc = "done")
               => /\ reqs'[r] = Done("send", SendFailed)
                  /\ mailerCalls' = mailerCalls
                  /\ store' = store
     /\ \A id \in TrackingIds :
          mailerCalls'[id] # mailerCalls[id]
            => \E r \in Slots : /\ reqs[r].pc = "created"
                                /\ reqs'[r].pc = "sendMail"
                                /\ reqs[r].input.trackingId = id]_vars

\* one send was answered success, a second send of the same trackingId was
\* refused, and the mailer was called once
C12_Witness ==
  /\ reqs[1] = Done("send", SendSuccess)
  /\ reqs[2] = Done("send", SendFailed)
  /\ started = 2
  /\ Exists(store, "t1")
  /\ mailerCalls["t1"] = 1

\* C13 as stated: when the mailer rejects the message of a send, the request
\* is answered 500 and the record it created is in the store as created:
\* SENT, no method, no openedAt, openCount 0.
C13_RecordLeftAsCreated ==
  [][\A r \in Slots :
       (reqs[r].pc = "sendMail" /\ reqs'[r].pc = "done")
         => /\ reqs'[r] = Done("send", SendFailed)
            /\ Exists(store', reqs[r].input.trackingId)
            /\ store'[reqs[r].input.trackingId] = reqs[r].updateData
            /\ store'[reqs[r].input.trackingId].status = "SENT"
            /\ store'[reqs[r].input.trackingId].method = NullMethod
            /\ store'[reqs[r].input.trackingId].openedAt = NullDate
            /\ store'[reqs[r].input.trackingId].openCount = 0]_vars

\* C13, amended: the record a send creates is SENT, no method, no openedAt,
\* openCount 0; from then until the send is answered only the write of an
\* engagement event changes it; and when the mailer rejects the message the
\* request is answered 500 and the store is left as it is, the record in it.
C13_MailFailureKeepsRecord ==
  [][\A r \in Slots :
       /\ (reqs[r].pc = "create" /\ reqs'[r].pc = "created")
            => /\ store'[reqs[r].input.trackingId] = reqs[r].updateData
               /\ store'[reqs[r].input.trackingId].status = "SENT"
               /\ store'[reqs[r].input.trackingId].method = NullMethod
               /\ store'[reqs[r].input.trackingId].openedAt = NullDate
               /\ store'[reqs[r].input.trackingId].openCount = 0
       /\ (reqs[r].pc \in {"created", "sendMail"}
             /\ store'[reqs[r].input.trackingId] # store[reqs[r].input.trackingId])
            => /\ EngagementWrite(reqs[r].input.trackingId)
               /\ Exists(store', reqs[r].input.trackingId)
       /\ (reqs[r].pc = "sendMail" /\ reqs'[r].pc = "done")
            => /\ reqs'[r] = Done("send", SendFailed)
               /\ store' = store
               /\ Exists(store', reqs[r].input.trackingId)]_vars

\* the only send there was created the record, called the mailer and was
\* answered 500; the record is in the store as created, and a click that
\* read it while the mailer was working is about to write
C13_Witness ==
  /\ started = 2
  /\ reqs[1] = Done("send", SendFailed)
  /\ mailerCalls["t1"] = 1
  /\ Exists(store, "t1")
  /\ store["t1"].status = "SENT"
  /\ store["t1"].openCount = 0
  /\ reqs[2].kind = "click"
  /\ reqs[2].pc = "updateOne"
  /\ reqs[2].tracking.status = "SENT"

\* C14: an anchor whose href starts with mailto: or # comes out of
\* rewriteLinksForTracking as it went in, tag, attributes and content, for
\* every trackingId.
C14_SkippedAnchorsUnchanged ==
  (rw.pc = "rewritten" /\ Skipped(rw.parts.url))
    => rw.out = Fragment(rw.parts)

\* C15: an anchor with any other href comes out with the href replaced by the
\* indirection URL and with every other attribute, before and after the
\* href, and the content as they were (the tag name in the lower case the
\* replacement writes).
C15_OnlyHrefReplaced ==
  (rw.pc = "rewritten" /\ ~Skipped(rw.parts.url))
    => rw.out =
         TagOpen(FALSE) \o rw.parts.pre \o HrefEq
           \o TrackingUrl(rw.trackingId, rw.parts.url) \o <<Quote>>
           \o rw.parts.post \o <<Gt>> \o Content \o CloseTag \o rw.parts.tail

\* C16: with requests handled one at a time and the store succeeding, the
\* write of an engagement event to an existing record leaves ipAddress and
\* userAgent equal to the values of the requester of that event; a requester
\* without a User-Agent header leaves no user agent (null or none).
C16_LastRequesterWins ==
  [][\A r \in Slots :
       (reqs[r].pc = "updateOne" /\ reqs'[r].pc = "updated"
          /\ Exists(store, reqs[r].input.id))
         => /\ store'[reqs[r].input.id].ipAddress = reqs[r].who.ip
            /\ IF reqs[r].who.ua = Undefined
               THEN store'[reqs[r].input.id].userAgent \in {Undefined, NullString}
               ELSE store'[reqs[r].input.id].userAgent = reqs[r].who.ua]_vars

\* C17: the write of an engagement handler stores the openCount it read plus
\* one, whatever has been written since it read: two handlers that both read
\* before either writes leave openCount grown by 1.
C17_WriteFromStaleRead ==
  [][\A r \in Slots :
       (reqs[r].pc = "updateOne" /\ reqs'[r].pc = "updated"
          /\ Exists(store, reqs[r].input.id))
         => store'[reqs[r].input.id].openCount = reqs[r].tracking.openCount + 1]_vars

\* the lost update: a pixel request and a click request for the record t1,
\* both answered, and openCount is 1
C17_Witness ==
  /\ reqs[1] = Done("pixel", PixelPng)
  /\ reqs[2].kind = "click"
  /\ reqs[2].pc = "done"
  /\ reqs[2].response.status = 302
  /\ events["t1"] = 2
  /\ Exists(store, "t1")
  /\ store["t1"].openCount = 1

\* C18: a GET on the indirection URL the rewrite produced for href h is
\* answered with a redirect to exactly h.
C18_RoundTripRedirectsToHref ==
  \A r \in Slots :
    (rw.pc = "rewritten" /\ reqs[r].kind = "click" /\ reqs[r].pc = "done")
      => \E h \in RewrittenHrefs(Fragment(rw.parts)) :
           reqs[r].response = Redirect(h)

\* C19: in every state, under every interleaving, a stored record is OPENED
\* exactly if its openCount is at least 1.
C19_OpenedIffCounted ==
  \A id \in TrackingIds :
    Exists(store, id) =>
      (store[id].status = "OPENED" <=> store[id].openCount >= 1)

\* a write built from a stale read has landed (two events, openCount 1) and
\* another write that sets the status again is waiting
C19_Witness ==
  /\ Exists(store, "t1")
  /\ store["t1"].status = "OPENED"
  /\ store["t1"].openCount = 1
  /\ events["t1"] = 2
  /\ \E r \in Slots :
       /\ reqs[r].pc = "updateOne"
       /\ "status" \in DOMAIN reqs[r].updateData
       /\ reqs[r].updateData.openCount = 1

\* C20: the store holds one record per trackingId, and a send whose
\* trackingId has a record already is answered 500, calls no mailer and
\* leaves the store as it is.
C20_DuplicateSendRefused ==
  [][/\ \A r \in Slots :
          /\ (reqs[r].pc = "create" /\ Moved(r)
                /\ Exists(store, reqs[r].input.trackingId))
               => /\ reqs'[r].pc = "rejected"
                  /\ store' = store
                  /\ mailerCalls' = mailerCalls
          /\ (reqs[r].pc = "rejected" /\ Moved(r))
               => /\ reqs'[r] = Done("send", SendFailed)
                  /\ store' = store
                  /\ mailerCalls' = mailerCalls
     /\ \A id \in TrackingIds :
          Exists(store', id) => store'[id].trackingId = id]_vars

\* a second send for t1 arrived after the record was opened and was answered
\* 500; the first send is the only one that reached the mailer
C20_Witness ==
  /\ reqs[1] = Done("send", SendSuccess)
  /\ reqs[2] = Done("send", SendFailed)
  /\ started = 3
  /\ Exists(store, "t1")
  /\ store["t1"].status = "OPENED"
  /\ store["t1"].openCount = 1
  /\ mailerCalls["t1"] = 1

====
